---------------------------- MODULE Spec2Model ----------------------------
(***************************************************************************)
(* Bank-statement conversion of convert-to-freeagent (src/src/App.tsx):    *)
(* convertStarlingToFreeAgent and convertRevolutToFreeAgent turn the rows  *)
(* a CSV parser produced into FreeAgent records {Date, Amount,             *)
(* Description}, or into one error message.                                *)
(*                                                                         *)
(* A JavaScript string is a sequence of one-character strings, so that     *)
(* the regular expressions, split, trim, parseFloat and toFixed of the     *)
(* code are computed character by character.  A row (Transaction) is a     *)
(* function from the column names it has to such strings; a column whose   *)
(* value is undefined is a column outside the row's DOMAIN.                *)
(***************************************************************************)
EXTENDS Integers, Sequences, FiniteSets, TLC

VARIABLES
  \* one call of a converter: its argument, the bank whose converter runs,
  \* what it returned, and what converting its records again returned
  data, selectedBank, converted, renormalized,
  \* the state of the page (useState of App) and the parses under way
  originalFileName, originalTransactions, formattedTransactions, error,
  isModalOpen, selectedFile, parsing, installedFrom,
  \* the state of the UploadModal component and the arguments of the
  \* latest call of its onSubmit
  open, modalFile, modalBank, modalError, submitted,
  \* the component the run renders
  mounted

pageVars == <<originalFileName, originalTransactions, formattedTransactions,
              error, isModalOpen, selectedFile, parsing, installedFrom>>

modalVars == <<open, modalFile, modalBank, modalError, submitted, mounted>>

vars == <<data, selectedBank, converted, renormalized, pageVars, modalVars>>

-----------------------------------------------------------------------------
(* Characters and strings                                                  *)

Digits == {"0", "1", "2", "3", "4", "5", "6", "7", "8", "9"}

\* What String.prototype.trim strips and what parseFloat skips in front
\* (WhiteSpace and LineTerminator), among the characters of the model.
WhiteSpace == {" ", "\t", "\n", "\r"}

DigitVal(c) ==
  CASE c = "0" -> 0 [] c = "1" -> 1 [] c = "2" -> 2 [] c = "3" -> 3
    [] c = "4" -> 4 [] c = "5" -> 5 [] c = "6" -> 6 [] c = "7" -> 7
    [] c = "8" -> 8 [] c = "9" -> 9

DigitChar(n) ==
  <<"0", "1", "2", "3", "4", "5", "6", "7", "8", "9">>[n + 1]

Tl(s, n) == SubSeq(s, n + 1, Len(s))

RECURSIVE ToInt(_)
ToInt(s) ==
  IF s = <<>> THEN 0
  ELSE 10 * ToInt(SubSeq(s, 1, Len(s) - 1)) + DigitVal(s[Len(s)])

RECURSIVE IntToStr(_)
IntToStr(n) ==
  IF n < 10 THEN <<DigitChar(n)>>
  ELSE IntToStr(n \div 10) \o <<DigitChar(n % 10)>>

RECURSIVE Pow10(_)
Pow10(k) == IF k = 0 THEN 1 ELSE 10 * Pow10(k - 1)

\* s.split(c) for a one-character separator c: the pieces between the
\* occurrences of c, in order ("".split(c) is [""]).
RECURSIVE Split(_, _)
Split(s, c) ==
  IF \A i \in 1..Len(s) : s[i] # c THEN <<s>>
  ELSE LET i == CHOOSE j \in 1..Len(s) :
                  s[j] = c /\ \A k \in 1..(j - 1) : s[k] # c
       IN  <<SubSeq(s, 1, i - 1)>> \o Split(Tl(s, i), c)

\* s.replace(/c/g, "")
RemoveAll(s, c) == SelectSeq(s, LAMBDA x : x # c)

\* s.replace(/\r\n|\n|\r/gm, " "): scanning from the left, CRLF is one
\* match and becomes one space.
RECURSIVE ReplaceLineBreaks(_)
ReplaceLineBreaks(s) ==
  IF s = <<>> THEN <<>>
  ELSE IF Len(s) >= 2 /\ s[1] = "\r" /\ s[2] = "\n"
       THEN <<" ">> \o ReplaceLineBreaks(Tl(s, 2))
  ELSE IF s[1] \in {"\n", "\r"}
       THEN <<" ">> \o ReplaceLineBreaks(Tl(s, 1))
  ELSE <<s[1]>> \o ReplaceLineBreaks(Tl(s, 1))

RECURSIVE TrimStart(_)
TrimStart(s) ==
  IF s # <<>> /\ s[1] \in WhiteSpace THEN TrimStart(Tl(s, 1)) ELSE s

RECURSIVE TrimEnd(_)
TrimEnd(s) ==
  IF s # <<>> /\ s[Len(s)] \in WhiteSpace
  THEN TrimEnd(SubSeq(s, 1, Len(s) - 1)) ELSE s

\* s.trim()
Trim(s) == TrimEnd(TrimStart(s))

-----------------------------------------------------------------------------
(* parseFloat and Number.prototype.toFixed(2)                              *)

INFINITY == <<"I", "n", "f", "i", "n", "i", "t", "y">>

StartsWith(s, p) == Len(s) >= Len(p) /\ SubSeq(s, 1, Len(p)) = p

\* The longest prefix of s made of decimal digits.
RECURSIVE DigitPrefix(_)
DigitPrefix(s) ==
  IF s # <<>> /\ s[1] \in Digits
  THEN <<s[1]>> \o DigitPrefix(Tl(s, 1)) ELSE <<>>

\* parseFloat(s): leading white space is skipped, then the longest prefix
\* that is a StrDecimalLiteral is taken and whatever follows it is ignored;
\* NaN when there is no such prefix.  The value is kept exactly: the sign,
\* the digits before the point and the digits after it.  No amount string
\* of the model holds the letter e or E, so the literal has no exponent.
parseFloat(str) ==
  LET t    == TrimStart(str)
      neg  == t # <<>> /\ t[1] = "-"
      u    == IF t # <<>> /\ t[1] \in {"-", "+"} THEN Tl(t, 1) ELSE t
      int  == DigitPrefix(u)
      v    == Tl(u, Len(int))
      frac == IF v # <<>> /\ v[1] = "." THEN DigitPrefix(Tl(v, 1)) ELSE <<>>
  IN  IF StartsWith(u, INFINITY) THEN [kind |-> "inf", neg |-> neg]
      ELSE IF int = <<>> /\ frac = <<>> THEN [kind |-> "nan"]
      ELSE [kind |-> "num", neg |-> neg, int |-> int, frac |-> frac]

isNaN(x) == x.kind = "nan"

IsZero(x) == \A i \in 1..Len(x.int \o x.frac) : (x.int \o x.frac)[i] = "0"

\* The digits after the second decimal place are exactly one half of a
\* unit of the second place.
IsTie(x) ==
  /\ Len(x.frac) >= 3
  /\ x.frac[3] = "5"
  /\ \A i \in 4..Len(x.frac) : x.frac[i] = "0"

\* A tie whose decimal value is a binary fraction (a multiple of 1/8), so
\* that the double holds it exactly.
ExactTie(x) ==
  IsTie(x) /\ (8 * ToInt(x.int \o x.frac)) % Pow10(Len(x.frac)) = 0

\* A tie the double cannot hold: the double lies just above or just below.
InexactTie(x) == x.kind = "num" /\ IsTie(x) /\ ~ExactTie(x)

\* x.toFixed(2).  A non-finite x gives its ToString.  Else
\* the sign is "-" iff x < 0 (so -0 gives "0.00" and -0.001 "-0.00"), and n
\* is the integer with n / 100 closest to |x|, the larger one when two are
\* equally close.  At a tie the double cannot hold, the closest n depends
\* on the binary expansion of the double: up says which side it lies on.
toFixed2(x, up) ==
  IF x.kind = "nan" THEN <<"N", "a", "N">>
  ELSE IF x.kind = "inf"
  THEN (IF x.neg THEN <<"-">> ELSE <<>>) \o INFINITY
  ELSE LET f2    == IF Len(x.frac) >= 2 THEN SubSeq(x.frac, 1, 2)
                    ELSE IF Len(x.frac) = 1 THEN x.frac \o <<"0">>
                    ELSE <<"0", "0">>
           rest  == Tl(x.frac, 2)
           above == /\ rest # <<>>
                    /\ \/ DigitVal(rest[1]) > 5
                       \/ /\ rest[1] = "5"
                          /\ \E i \in 2..Len(rest) : rest[i] # "0"
           round == above \/ ExactTie(x) \/ (InexactTie(x) /\ up)
           n     == ToInt(x.int \o f2) + (IF round THEN 1 ELSE 0)
           m     == IntToStr(n)
           pad   == IF Len(m) = 1 THEN <<"0", "0">> \o m
                    ELSE IF Len(m) = 2 THEN <<"0">> \o m ELSE m
           sign  == IF x.neg /\ ~IsZero(x) THEN <<"-">> ELSE <<>>
       IN  sign \o SubSeq(pad, 1, Len(pad) - 2) \o <<".">>
                \o SubSeq(pad, Len(pad) - 1, Len(pad))

-----------------------------------------------------------------------------
(* The converters                                                          *)

\* row[k] is undefined
Undef(row, k) == k \notin DOMAIN row

\* !row[k]: undefined or the empty string
Falsy(row, k) == Undef(row, k) \/ row[k] = <<>>

\* row[k] || ""
OrEmpty(row, k) == IF Falsy(row, k) THEN <<>> ELSE row[k]

\* rowIndex with the header line not counted.
rowIndex_OneBased(index) == index + 1

\* const rowIndex = index + 2: the header line is row 1.
rowIndex(index) == index + 2

\* /^\d{2}\/\d{2}\/\d{4}$/.test(s)
datePattern(s) ==
  /\ Len(s) = 10
  /\ s[3] = "/" /\ s[6] = "/"
  /\ \A i \in {1, 2, 4, 5, 7, 8, 9, 10} : s[i] \in Digits

\* description.replace(/,/g, "").replace(/"/g, "")
\*            .replace(/\r\n|\n|\r/gm, " ").trim()
CleanDescription(s) ==
  Trim(ReplaceLineBreaks(RemoveAll(RemoveAll(s, ","), "\"")))

\* StarlingDescription with the reference left out.
StarlingDescription_NoReference(row) == OrEmpty(row, "Counter Party")

\* The description of a Starling row before it is cleaned: the counter
\* party, followed by " - " and the reference when there is one.
StarlingDescription(row) ==
  LET counterParty == OrEmpty(row, "Counter Party")
  IN  IF ~Falsy(row, "Reference")
      THEN counterParty \o <<" ", "-", " ">> \o row["Reference"]
      ELSE counterParty

\* row["Completed Date"].split(" ")[0].split("-")
RevolutDateParts(completedDate) == Split(Split(completedDate, " ")[1], "-")

\* RevolutDateInvalid with the lengths of the parts not looked at.
RevolutDateInvalid_CountOnly(dateParts) == Len(dateParts) # 3

\* The test the Revolut callback makes on the parts before it throws.
RevolutDateInvalid(dateParts) ==
  \/ Len(dateParts) # 3
  \/ Len(dateParts[1]) # 4
  \/ Len(dateParts[2]) # 2
  \/ Len(dateParts[3]) # 2

\* RevolutFormattedDate with the parts left in the order of the input.
RevolutFormattedDate_Unswapped(dateParts) ==
  dateParts[1] \o <<"/">> \o dateParts[2] \o <<"/">> \o dateParts[3]

\* `${dateParts[2]}/${dateParts[1]}/${dateParts[0]}`
RevolutFormattedDate(dateParts) ==
  dateParts[3] \o <<"/">> \o dateParts[2] \o <<"/">> \o dateParts[1]

\* What a row callback leaves behind: a record, or the Error it threw.
Returned(rec) == [threw |-> FALSE, rec |-> rec]
Thrown(e)     == [threw |-> TRUE, error |-> e]

\* The messages of the Errors, by their parts.
MissingValue(column, n) ==
  [kind |-> "Missing", column |-> column, row |-> n]
InvalidDate(n, raw) ==
  [kind |-> "InvalidDate", row |-> n, raw |-> raw]
InvalidAmount(column, n, raw) ==
  [kind |-> "InvalidAmount", column |-> column, row |-> n, raw |-> raw]
MissingHeader(header, firstRowKeys) ==
  [kind |-> "MissingColumn", column |-> header, found |-> firstRowKeys]

\* The callback of data.map in convertStarlingToFreeAgent; index is the
\* 0-based position of the row.
StarlingRow(row, index, up) ==
  IF Falsy(row, "Date")
  THEN Thrown(MissingValue("Date", rowIndex(index)))
  ELSE IF Undef(row, "Amount (GBP)")
  THEN Thrown(MissingValue("Amount (GBP)", rowIndex(index)))
  ELSE IF ~datePattern(row["Date"])
  THEN Thrown(InvalidDate(rowIndex(index), row["Date"]))
  ELSE LET amount == parseFloat(row["Amount (GBP)"])
       IN  IF isNaN(amount)
           THEN Thrown(InvalidAmount("Amount (GBP)", rowIndex(index),
                                     row["Amount (GBP)"]))
           ELSE Returned([Date |-> row["Date"],
                          Amount |-> toFixed2(amount, up),
                          Description |->
                            CleanDescription(StarlingDescription(row))])

\* The callback of data.map in convertRevolutToFreeAgent.
RevolutRow(row, index, up) ==
  IF Falsy(row, "Completed Date")
  THEN Thrown(MissingValue("Completed Date", rowIndex(index)))
  ELSE IF Undef(row, "Amount")
  THEN Thrown(MissingValue("Amount", rowIndex(index)))
  ELSE LET dateParts == RevolutDateParts(row["Completed Date"])
       IN  IF RevolutDateInvalid(dateParts)
           THEN Thrown(InvalidDate(rowIndex(index), row["Completed Date"]))
           ELSE LET amount == parseFloat(row["Amount"])
                IN  IF isNaN(amount)
                    THEN Thrown(InvalidAmount("Amount", rowIndex(index),
                                              row["Amount"]))
                    ELSE Returned(
                           [Date |-> RevolutFormattedDate(dateParts),
                            Amount |-> toFixed2(amount, up),
                            Description |->
                              CleanDescription(
                                OrEmpty(row, "Description"))])

\* StarlingMap with a throwing row left out of the array instead of ending
\* the map.
RECURSIVE StarlingMap_SkipsThrowingRow(_, _, _, _)
StarlingMap_SkipsThrowingRow(d, ups, i, out) ==
  IF i > Len(d) THEN [threw |-> FALSE, records |-> out]
  ELSE LET r == StarlingRow(d[i], i - 1, ups[i])
       IN  StarlingMap_SkipsThrowingRow(
             d, ups, i + 1, IF r.threw THEN out ELSE Append(out, r.rec))

\* data.map(callback) from row i on (1-based here), inside the try: the
\* rows are visited in order and the first throw ends the map; out is the
\* array built so far.
RECURSIVE StarlingMap(_, _, _, _)
StarlingMap(d, ups, i, out) ==
  IF i > Len(d) THEN [threw |-> FALSE, records |-> out]
  ELSE LET r == StarlingRow(d[i], i - 1, ups[i])
       IN  IF r.threw THEN r
           ELSE StarlingMap(d, ups, i + 1, Append(out, r.rec))

\* RevolutMap with each record put in front of the ones built so far.
RECURSIVE RevolutMap_Reversed(_, _, _, _)
RevolutMap_Reversed(d, ups, i, out) ==
  IF i > Len(d) THEN [threw |-> FALSE, records |-> out]
  ELSE LET r == RevolutRow(d[i], i - 1, ups[i])
       IN  IF r.threw THEN r
           ELSE RevolutMap_Reversed(d, ups, i + 1, <<r.rec>> \o out)

RECURSIVE RevolutMap(_, _, _, _)
RevolutMap(d, ups, i, out) ==
  IF i > Len(d) THEN [threw |-> FALSE, records |-> out]
  ELSE LET r == RevolutRow(d[i], i - 1, ups[i])
       IN  IF r.threw THEN r
           ELSE RevolutMap(d, ups, i + 1, Append(out, r.rec))

\* The value a converter returns: the array of records, or the message
\* string the catch block builds from the Error ("Error during <bank>
\* conversion: " followed by the message).
Records(recs) == [type |-> "array", records |-> recs]

\* Message with no catch block: the Error leaves the converter.
Message_Uncaught(bank, e) ==
  [type |-> "exception", bank |-> bank, error |-> e]

Message(bank, e) == [type |-> "string", bank |-> bank, error |-> e]

\* starlingHeaders with the test of Date first.
starlingHeaders_DateFirst == <<"Date", "Amount (GBP)", "Counter Party">>

\* The headers the Starling converter looks for, in the order of its three
\* if statements ...
starlingHeaders == <<"Amount (GBP)", "Counter Party", "Date">>

\* requiredHeaders without its last header.
requiredHeaders_NoDescription == <<"Completed Date", "Amount">>

\* ... and the ones the loop of the Revolut converter runs through.
requiredHeaders == <<"Completed Date", "Amount", "Description">>

\* The positions in headers of the headers firstRowKeys lacks.
MissingAt(headers, firstRowKeys) ==
  {h \in 1..Len(headers) : headers[h] \notin firstRowKeys}

\* The first of headers that firstRowKeys lacks: the one the throw names.
FirstMissing(headers, firstRowKeys) ==
  LET missing == MissingAt(headers, firstRowKeys)
  IN  headers[CHOOSE x \in missing : \A y \in missing : x <= y]

convertStarlingToFreeAgent(d, ups) ==
  IF Len(d) > 0
  THEN LET firstRowKeys == DOMAIN d[1]
       IN  IF MissingAt(starlingHeaders, firstRowKeys) # {}
           THEN Message("Starling",
                  MissingHeader(FirstMissing(starlingHeaders, firstRowKeys),
                                firstRowKeys))
           ELSE LET m == StarlingMap(d, ups, 1, <<>>)
                IN  IF m.threw THEN Message("Starling", m.error)
                    ELSE Records(m.records)
  ELSE Records(<<>>)

\* convertRevolutToFreeAgent with the header of an empty input checked too.
convertRevolutToFreeAgent_ChecksEmptyInput(d, ups) ==
  LET firstRowKeys == IF Len(d) > 0 THEN DOMAIN d[1] ELSE {}
  IN  IF MissingAt(requiredHeaders, firstRowKeys) # {}
      THEN Message("Revolut",
             MissingHeader(FirstMissing(requiredHeaders, firstRowKeys),
                           firstRowKeys))
      ELSE LET m == RevolutMap(d, ups, 1, <<>>)
           IN  IF m.threw THEN Message("Revolut", m.error)
               ELSE Records(m.records)

convertRevolutToFreeAgent(d, ups) ==
  IF Len(d) > 0
  THEN LET firstRowKeys == DOMAIN d[1]
       IN  IF MissingAt(requiredHeaders, firstRowKeys) # {}
           THEN Message("Revolut",
                  MissingHeader(FirstMissing(requiredHeaders, firstRowKeys),
                                firstRowKeys))
           ELSE LET m == RevolutMap(d, ups, 1, <<>>)
                IN  IF m.threw THEN Message("Revolut", m.error)
                    ELSE Records(m.records)
  ELSE Records(<<>>)

\* The earlier version of the page (one converter, Starling only):
\* description.replace(/,/g, "").replace(/"/g, "")
\*            .replace(/\r\n|\n|\r/gm, " "), with no trim.
FormatDescription(s) ==
  ReplaceLineBreaks(RemoveAll(RemoveAll(s, ","), "\""))

\* The callback of data.map in convertToFreeAgentFormat.
FormatRow(row, index, up) ==
  IF Falsy(row, "Date")
  THEN Thrown(MissingValue("Date", rowIndex(index)))
  ELSE IF Undef(row, "Amount (GBP)")
  THEN Thrown(MissingValue("Amount (GBP)", rowIndex(index)))
  ELSE IF ~datePattern(row["Date"])
  THEN Thrown(InvalidDate(rowIndex(index), row["Date"]))
  ELSE LET amount == parseFloat(row["Amount (GBP)"])
       IN  IF isNaN(amount)
           THEN Thrown(InvalidAmount("Amount (GBP)", rowIndex(index),
                                     row["Amount (GBP)"]))
           ELSE Returned([Date |-> row["Date"],
                          Amount |-> toFixed2(amount, up),
                          Description |->
                            FormatDescription(StarlingDescription(row))])

RECURSIVE FormatMap(_, _, _, _)
FormatMap(d, ups, i, out) ==
  IF i > Len(d) THEN [threw |-> FALSE, records |-> out]
  ELSE LET r == FormatRow(d[i], i - 1, ups[i])
       IN  IF r.threw THEN r
           ELSE FormatMap(d, ups, i + 1, Append(out, r.rec))

\* Its message is "Error during conversion: " and names no bank.
convertToFreeAgentFormat(d, ups) ==
  IF Len(d) > 0
  THEN LET firstRowKeys == DOMAIN d[1]
       IN  IF MissingAt(starlingHeaders, firstRowKeys) # {}
           THEN Message("",
                  MissingHeader(FirstMissing(starlingHeaders, firstRowKeys),
                                firstRowKeys))
           ELSE LET m == FormatMap(d, ups, 1, <<>>)
                IN  IF m.threw THEN Message("", m.error)
                    ELSE Records(m.records)
  ELSE Records(<<>>)

-----------------------------------------------------------------------------
(* The inputs                                                              *)

\* The bounds of the enumerated inputs.
MaxRows      == 2
MaxAmountLen == 4
MaxDescLen   == 3
MaxRefLen    == 1

\* All strings of at most n characters of the alphabet A.
Strs(A, n) == UNION {[1..k -> A] : k \in 0..n}

\* Marks an undefined field while a row is being put together; it is no
\* string, and no row holds it.
Undefined == <<"undefined">>

\* The row with the columns of f whose value is not Undefined.
MkRow(f) == [k \in {c \in DOMAIN f : f[c] # Undefined} |-> f[k]]

\* A row in the column layout of a Starling export ...
StarlingCols(date, amount, party, ref) ==
  MkRow([c \in {"Date", "Amount (GBP)", "Counter Party", "Reference"} |->
           CASE c = "Date" -> date
             [] c = "Amount (GBP)" -> amount
             [] c = "Counter Party" -> party
             [] c = "Reference" -> ref])

\* ... and of a Revolut export.
RevolutCols(date, amount, desc) ==
  MkRow([c \in {"Completed Date", "Amount", "Description"} |->
           CASE c = "Completed Date" -> date
             [] c = "Amount" -> amount
             [] c = "Description" -> desc])

DMY      == <<"0", "1", "/", "0", "2", "/", "2", "0", "2", "4">>
YMD      == <<"2", "0", "2", "4", "-", "0", "2", "-", "0", "1">>
YMDSlash == <<"2", "0", "2", "4", "/", "0", "2", "/", "0", "1">>
TimeOfDay == <<" ", "1", "0", ":", "0", "0", ":", "0", "0">>

\* The rows of the examples of the specification.
StarlingExample ==
  StarlingCols(DMY, <<"-", "1", "2", ".", "5">>,
               <<"A", "c", "m", "e", ",", " ", "L", "t", "d", ".">>,
               <<"I", "N", "V", "\"", "1">>)

RevolutExample ==
  RevolutCols(YMD \o TimeOfDay, <<"1", "2", ".", "5">>,
              <<"C", "o", "f", "f", "e", "e", "\n", "S", "h", "o", "p">>)

\* Rows of batches of several rows: each field is undefined, empty, well
\* formed or malformed.
CoreDates   == {Undefined, <<>>, DMY, YMD}
CoreAmounts == {Undefined, <<>>, <<"1", ".", "5">>, <<"a", "b", "c">>}
CoreDescs   == {Undefined, <<"a">>}

CoreStarlingRows ==
  {StarlingCols(d, a, p, Undefined) :
     d \in CoreDates, a \in CoreAmounts, p \in CoreDescs}

CoreRevolutRows ==
  {RevolutCols(d, a, p) :
     d \in CoreDates, a \in CoreAmounts, p \in CoreDescs}

Batches(rows) == UNION {[1..n -> rows] : n \in 0..MaxRows}

\* Amount strings: every short string of two digits, the minus sign, the
\* point and a letter, and some longer ones (a thousands comma, leading
\* white space, a plus sign, Infinity, values that toFixed rounds).
AmountAlphabet == {"1", "5", "-", ".", "a"}

AmountStrings ==
  Strs(AmountAlphabet, MaxAmountLen) \cup
  { <<"-", "1", "2", ".", "5">>, <<"a", "b", "c">>, INFINITY,
    <<"-">> \o INFINITY, <<"1", ",", "2", "3", "4", ".", "5", "6">>,
    <<" ", "7">>, <<"+", "3">>, <<"-", "0">>, <<"0", ".", "0", "0", "4">>,
    <<"9", "9", ".", "9", "9", "5">>, <<"0", ".", "1", "2", "5">>,
    <<"-", "0", ".", "0", "0", "4">> }

\* Description strings: every short string of a letter, the characters
\* the code removes or replaces, and a blank.
DescAlphabet == {"a", ",", "\"", "\n", "\r", " "}

DescStrings == Strs(DescAlphabet, MaxDescLen)

RefStrings == Strs(DescAlphabet, MaxRefLen) \cup {Undefined}

\* Date strings: three segments, two separators and a tail.
DateSegments ==
  { <<"0", "1">>, <<"0", "2">>, <<"2", "0", "2", "4">>, <<"1">>,
    <<"a", "b">>, <<"2", "0", ",", "4">>, <<"2", "\n">> }

DateStrings ==
  { a \o <<s>> \o b \o <<s>> \o c \o t :
      a \in DateSegments, b \in DateSegments, c \in DateSegments,
      s \in {"-", "/"}, t \in {<<>>, TimeOfDay, <<"\n">>} }
  \cup { <<" ">> \o YMD, YMD \o <<"-", "0", "5">>,
         <<"2", "0", "2", "4", "-", "0", "2">>,
         <<"2", "0", "2", "4", "0", "2", "0", "1">> }

\* Batches of one row in which one field ranges widely and the others are
\* well formed.
StarlingProbes ==
  {StarlingCols(DMY, a, <<"a">>, Undefined) : a \in AmountStrings}
  \cup {StarlingCols(DMY, <<"1", ".", "5">>, p, r) :
          p \in DescStrings, r \in RefStrings}
  \cup {StarlingCols(d, <<"1", ".", "5">>, <<"a">>, Undefined) :
          d \in DateStrings}
  \cup {StarlingExample}

RevolutProbes ==
  {RevolutCols(YMD, a, <<"a">>) : a \in AmountStrings}
  \cup {RevolutCols(YMD, <<"1", ".", "5">>, p) : p \in DescStrings}
  \cup {RevolutCols(d, <<"1", ".", "5">>, <<"a">>) : d \in DateStrings}
  \cup {RevolutExample}

\* The arrays handed to a converter: whatever its parameter type
\* Transaction[] admits, rows with undefined columns included (the code
\* tests for them), not only the arrays the CSV parser builds, in which
\* every row has the columns of the header line.
Inputs ==
  Batches(CoreStarlingRows) \cup Batches(CoreRevolutRows)
  \cup {<<r>> : r \in StarlingProbes \cup RevolutProbes}

-----------------------------------------------------------------------------
(* The state machine: one call of a converter on one input                 *)

\* converted before the converter has run.
None == [type |-> "none"]

\* The sides on which the doubles of the amounts of d lie at the ties the
\* double cannot hold, one per row.
TieSides(d, column) ==
  IF \E i \in 1..Len(d) :
       ~Undef(d[i], column) /\ InexactTie(parseFloat(d[i][column]))
  THEN [1..Len(d) -> BOOLEAN]
  ELSE {[i \in 1..Len(d) |-> FALSE]}

\* null, for the states that hold a bank or null
Null == "null"

\* null, for the states that hold a File or null
NoFile == [null |-> TRUE]

\* onSubmit has not been called
NoCall == [called |-> FALSE]

\* error === null
NoError == [kind |-> "null"]

\* The page as useState leaves it, the bank apart: nothing uploaded,
\* nothing selected, the dialog closed, no parse under way.
PageInitial ==
  /\ originalFileName = <<>>
  /\ originalTransactions = <<>>
  /\ formattedTransactions = <<>>
  /\ error = NoError
  /\ isModalOpen = FALSE
  /\ selectedFile = NoFile
  /\ parsing = {}
  /\ installedFrom = <<>>

\* The UploadModal component as useState leaves it, not shown.
ModalInitial ==
  /\ open = FALSE
  /\ modalFile = NoFile
  /\ modalBank = Null
  /\ modalError = NoError
  /\ submitted = NoCall

Init ==
  /\ data \in Inputs
  /\ selectedBank \in {"starling", "revolut"}
  /\ converted = None
  /\ renormalized = None
  /\ PageInitial
  /\ ModalInitial
  /\ mounted = "App"

\* handleProcessUpload, the complete callback from the conversion on:
\* the converter of the selected bank is applied to the parsed rows.
ConvertStarling ==
  /\ converted.type = "none"
  /\ selectedBank = "starling"
  /\ \E ups \in TieSides(data, "Amount (GBP)") :
       converted' = convertStarlingToFreeAgent(data, ups)
  /\ UNCHANGED <<data, selectedBank, renormalized, pageVars, modalVars>>

ConvertRevolut ==
  /\ converted.type = "none"
  /\ selectedBank = "revolut"
  /\ \E ups \in TieSides(data, "Amount") :
       converted' = convertRevolutToFreeAgent(data, ups)
  /\ UNCHANGED <<data, selectedBank, renormalized, pageVars, modalVars>>

Next == ConvertStarling \/ ConvertRevolut

Spec == Init /\ [][Next]_vars

\* The three converters of the repository.  The earlier version of the
\* page has no bank to select; handleFileUpload hands the parsed rows to
\* convertToFreeAgentFormat.
InitConverters ==
  /\ data \in Inputs
  /\ selectedBank \in {"starling", "revolut", Null}
  /\ converted = None
  /\ renormalized = None
  /\ PageInitial
  /\ ModalInitial
  /\ mounted = "App"

ConvertFormat ==
  /\ converted.type = "none"
  /\ selectedBank = Null
  /\ \E ups \in TieSides(data, "Amount (GBP)") :
       converted' = convertToFreeAgentFormat(data, ups)
  /\ UNCHANGED <<data, selectedBank, renormalized, pageVars, modalVars>>

NextConverters == ConvertStarling \/ ConvertRevolut \/ ConvertFormat

SpecConverters == InitConverters /\ [][NextConverters]_vars

\* The record of a converter handed back as a row: its date as the date
\* column, its amount as the amount column, its description as the
\* description column, and no reference.
PassThrough(rec) ==
  StarlingCols(rec.Date, rec.Amount, rec.Description, Undefined)

\* The records of a successful conversion are converted once more.
Renormalize ==
  /\ converted.type = "array"
  /\ renormalized.type = "none"
  /\ LET rows == [i \in 1..Len(converted.records) |->
                   PassThrough(converted.records[i])]
     IN  \E ups \in TieSides(rows, "Amount (GBP)") :
           renormalized' = convertStarlingToFreeAgent(rows, ups)
  /\ UNCHANGED <<data, selectedBank, converted, pageVars, modalVars>>

NextRoundTrip == ConvertStarling \/ ConvertRevolut \/ Renormalize

SpecRoundTrip == Init /\ [][NextRoundTrip]_vars

-----------------------------------------------------------------------------
(* The files the user can drop, and what the CSV parser makes of them      *)

\* The most parses under way at once.
MaxPending == 1

File(name, type) == [name |-> name, type |-> type]

StarlingFile == File(<<"a", ".", "c", "s", "v">>, "text/csv")
RevolutFile  == File(<<"b", ".", "c", "s", "v">>, "text/csv")
EmptyFile    == File(<<"e", ".", "c", "s", "v">>, "text/csv")
BrokenFile   == File(<<"x", ".", "c", "s", "v">>, "text/csv")
UpperFile    == File(<<"U", ".", "C", "S", "V">>, "")
TextFile     == File(<<"n", ".", "t", "x", "t">>, "text/plain")

Files ==
  {StarlingFile, RevolutFile, EmptyFile, BrokenFile, UpperFile, TextFile}

\* The arguments of onDrop: no accepted file, or one (multiple: false).
Drops == {<<>>} \cup {<<f>> : f \in Files}

\* name.endsWith(".csv")
endsWithCsv(name) ==
  /\ Len(name) >= 4
  /\ SubSeq(name, Len(name) - 3, Len(name)) = <<".", "c", "s", "v">>

\* name.toLowerCase(), for the letters of the file names
toLowerCase(name) ==
  [i \in 1..Len(name) |->
     CASE name[i] = "C" -> "c"
       [] name[i] = "S" -> "s"
       [] name[i] = "V" -> "v"
       [] name[i] = "U" -> "u"
       [] OTHER -> name[i]]

\* originalFileName.replace(/\.[^/.]+$/, ""): the last dot and what follows
\* it are removed when at least one character follows and none is a slash.
baseName(name) ==
  LET dots == {i \in 1..Len(name) : name[i] = "."}
  IN  IF dots = {} THEN name
      ELSE LET d == CHOOSE i \in dots : \A j \in dots : j <= i
           IN  IF d < Len(name) /\ \A j \in (d + 1)..Len(name) : name[j] # "/"
               THEN SubSeq(name, 1, d - 1)
               ELSE name

\* `${baseName || "download"}_freeagent.csv`
downloadName(name) ==
  (IF baseName(name) = <<>>
   THEN <<"d", "o", "w", "n", "l", "o", "a", "d">>
   ELSE baseName(name))
  \o <<"_", "f", "r", "e", "e", "a", "g", "e", "n", "t", ".", "c", "s", "v">>

\* What Papa.parse hands to complete for each file: whether results.errors
\* is non-empty, and results.data (header: true, skipEmptyLines: true).
Parsed(file) ==
  CASE file = StarlingFile ->
         [errors |-> FALSE,
          data |-> <<StarlingCols(DMY, <<"1", ".", "5">>, <<"a">>, <<>>),
                     StarlingCols(DMY, <<"-", "5">>, <<"b">>, <<"1">>)>>]
    [] file = UpperFile ->
         [errors |-> FALSE,
          data |-> <<StarlingCols(DMY, <<"5">>, <<"u">>, <<>>)>>]
    [] file = RevolutFile ->
         [errors |-> FALSE,
          data |-> <<RevolutCols(YMD, <<"1", ".", "5">>, <<"c">>)>>]
    [] file = BrokenFile ->
         [errors |-> TRUE, data |-> <<>>]
    [] OTHER ->
         [errors |-> FALSE, data |-> <<>>]

\* The values of error and modalError other than null.
ErrorText(text) == [kind |-> "text", text |-> text]

\* `Error parsing CSV: ${...}`
ParsingError == [kind |-> "parsing"]

\* `Error reading file: ${err.message}`
ReadingError == [kind |-> "reading"]

\* setError(converted), converted being the message of a converter
ConversionError(result) == [kind |-> "conversion", message |-> result]

-----------------------------------------------------------------------------
(* The page: the handlers of App and the callbacks of Papa.parse           *)

converterVars == <<data, converted, renormalized>>

\* file.type === "text/csv" || file.name.endsWith(".csv")
IsCsv(file) == file.type = "text/csv" \/ endsWithCsv(file.name)

\* onDrop of App, handed the accepted files by the dropzone of the dialog.
onDrop ==
  /\ mounted = "App" /\ isModalOpen
  /\ \E acceptedFiles \in Drops :
       IF Len(acceptedFiles) > 0
       THEN LET file == acceptedFiles[1]
            IN  IF IsCsv(file)
                THEN /\ selectedFile' = file
                     /\ originalFileName' = file.name
                     /\ error' = NoError
                     /\ originalTransactions' = <<>>
                     /\ formattedTransactions' = <<>>
                     /\ installedFrom' = <<>>
                     /\ selectedBank' = Null
                ELSE /\ error' = ErrorText("Invalid file type")
                     /\ selectedFile' = NoFile
                     /\ originalFileName' = <<>>
                     /\ selectedBank' = Null
                     /\ UNCHANGED <<originalTransactions,
                                    formattedTransactions, installedFrom>>
       ELSE UNCHANGED <<selectedFile, originalFileName, error,
                        originalTransactions, formattedTransactions,
                        installedFrom, selectedBank>>
  /\ UNCHANGED <<isModalOpen, parsing, converterVars, modalVars>>

\* The button Upload CSV File, behind the dialog while the dialog is open.
handleOpenModal ==
  /\ mounted = "App" /\ ~isModalOpen
  /\ isModalOpen' = TRUE
  /\ selectedFile' = NoFile
  /\ selectedBank' = Null
  /\ error' = NoError
  /\ originalFileName' = <<>>
  /\ originalTransactions' = <<>>
  /\ formattedTransactions' = <<>>
  /\ installedFrom' = <<>>
  /\ UNCHANGED <<parsing, converterVars, modalVars>>

\* Cancel, or onClose of the dialog.
handleCloseModal ==
  /\ mounted = "App" /\ isModalOpen
  /\ isModalOpen' = FALSE
  /\ UNCHANGED <<selectedFile, selectedBank, error, originalFileName,
                 originalTransactions, formattedTransactions, installedFrom,
                 parsing, converterVars, modalVars>>

\* The toggle buttons rendered whatever is selected.
ToggleShown_Always(file) == TRUE

\* {selectedFile && (<ToggleButtonGroup ...>)}: the toggle buttons are
\* rendered only while a file is selected.
ToggleShown(file) == file # NoFile

\* newBank is null when the pressed button is the selected one.
handleBankSelection ==
  /\ mounted = "App" /\ isModalOpen
  /\ ToggleShown(selectedFile)
  /\ \E newBank \in {"starling", "revolut", Null} :
       selectedBank' = IF newBank # Null THEN newBank ELSE selectedBank
  /\ UNCHANGED <<selectedFile, error, originalFileName, isModalOpen,
                 originalTransactions, formattedTransactions, installedFrom,
                 parsing, converterVars, modalVars>>

\* The parse requests that are not under way.
FreeRequests == (1..MaxPending) \ {p.id : p \in parsing}

\* handleProcessUpload with the test of the file alone.
CanProcess_FileOnly(file, bank) == file # NoFile

\* !(!selectedFile || !selectedBank)
CanProcess(file, bank) == file # NoFile /\ bank # Null

\* handleProcessUpload up to the call of Papa.parse, which returns at once;
\* the callbacks run later with the file and the bank of this call.
handleProcessUpload ==
  /\ mounted = "App" /\ isModalOpen
  /\ IF ~CanProcess(selectedFile, selectedBank)
     THEN /\ error' = ErrorText("Please select a file and a bank type.")
          /\ UNCHANGED parsing
     ELSE /\ FreeRequests # {}
          /\ error' = NoError
          /\ LET id == CHOOSE n \in FreeRequests :
                          \A m \in FreeRequests : n <= m
             IN  parsing' = parsing \cup
                   {[id |-> id, file |-> selectedFile, bank |-> selectedBank]}
  /\ UNCHANGED <<selectedFile, selectedBank, originalFileName, isModalOpen,
                 originalTransactions, formattedTransactions, installedFrom,
                 converterVars, modalVars>>

\* complete with each test passed: the conversion failed or succeeded, and
\* the dialog closed whichever it is.
Converted_ClosesAlways(result) ==
  [error |-> IF result.type = "string" THEN ConversionError(result)
             ELSE NoError,
   formatted |-> IF result.type = "string" THEN <<>> ELSE result.records,
   close |-> TRUE]

\* The end of complete: typeof converted === "string" or the array; close
\* says whether handleCloseModal is called.
Converted(result) ==
  IF result.type = "string"
  THEN [error |-> ConversionError(result), formatted |-> <<>>,
        close |-> FALSE]
  ELSE [error |-> NoError, formatted |-> result.records, close |-> TRUE]

\* The callback complete of the parse p, run when the parser is done,
\* whatever the page has become since the call.
ParseComplete ==
  /\ mounted = "App"
  /\ \E p \in parsing :
       LET results == Parsed(p.file)
       IN  /\ parsing' = parsing \ {p}
           /\ IF results.errors
              THEN /\ error' = ParsingError
                   /\ originalTransactions' = <<>>
                   /\ formattedTransactions' = <<>>
                   /\ installedFrom' = <<>>
                   /\ UNCHANGED isModalOpen
              ELSE IF Len(results.data) = 0
              THEN /\ error' = ErrorText("CSV file is empty or invalid.")
                   /\ originalTransactions' = <<>>
                   /\ formattedTransactions' = <<>>
                   /\ installedFrom' = <<>>
                   /\ UNCHANGED isModalOpen
              ELSE /\ originalTransactions' = results.data
                   /\ IF p.bank \notin {"starling", "revolut"}
                      THEN /\ error' = ErrorText("No bank type selected.")
                           /\ formattedTransactions' = <<>>
                           /\ installedFrom' = <<>>
                           /\ UNCHANGED isModalOpen
                      ELSE \E ups \in TieSides(results.data,
                                     IF p.bank = "starling"
                                     THEN "Amount (GBP)" ELSE "Amount") :
                             LET c == Converted(
                                        IF p.bank = "starling"
                                        THEN convertStarlingToFreeAgent(
                                               results.data, ups)
                                        ELSE convertRevolutToFreeAgent(
                                               results.data, ups))
                             IN  /\ error' = c.error
                                 /\ formattedTransactions' = c.formatted
                                 /\ installedFrom' =
                                      IF c.formatted = <<>> THEN <<>>
                                      ELSE p.file.name
                                 /\ isModalOpen' =
                                      IF c.close THEN FALSE ELSE isModalOpen
  /\ UNCHANGED <<selectedFile, selectedBank, originalFileName,
                 converterVars, modalVars>>

\* The callback error of the parse p: the file could not be read.
ParseError ==
  /\ mounted = "App"
  /\ \E p \in parsing : parsing' = parsing \ {p}
  /\ error' = ReadingError
  /\ originalTransactions' = <<>>
  /\ formattedTransactions' = <<>>
  /\ installedFrom' = <<>>
  /\ UNCHANGED <<selectedFile, selectedBank, originalFileName, isModalOpen,
                 converterVars, modalVars>>

\* The button Download: the records are written to the file named
\* downloadName(originalFileName), which changes nothing of the page but
\* the error.
handleDownload ==
  /\ mounted = "App"
  /\ error' = IF Len(formattedTransactions) = 0
              THEN ErrorText("No formatted data available to download.")
              ELSE NoError
  /\ UNCHANGED <<selectedFile, selectedBank, originalFileName, isModalOpen,
                 originalTransactions, formattedTransactions, installedFrom,
                 parsing, converterVars, modalVars>>

-----------------------------------------------------------------------------
(* The UploadModal component                                               *)

\* file.type === "text/csv" || file.name.toLowerCase().endsWith(".csv")
ModalIsCsv(file) ==
  file.type = "text/csv" \/ endsWithCsv(toLowerCase(file.name))

\* The parent shows the modal: the effect on [open] resets its state.
ModalOpen ==
  /\ mounted = "UploadModal" /\ ~open
  /\ open' = TRUE
  /\ modalFile' = NoFile
  /\ modalBank' = Null
  /\ modalError' = NoError
  /\ UNCHANGED <<submitted, mounted, selectedBank, pageVars, converterVars>>

ModalOnDrop ==
  /\ mounted = "UploadModal" /\ open
  /\ \E acceptedFiles \in Drops :
       IF Len(acceptedFiles) > 0
       THEN LET file == acceptedFiles[1]
            IN  IF ModalIsCsv(file)
                THEN /\ modalError' = NoError
                     /\ modalFile' = file
                     /\ modalBank' = Null
                ELSE /\ modalError' = ErrorText("Invalid file type")
                     /\ modalFile' = NoFile
                     /\ modalBank' = Null
       ELSE /\ modalError' = NoError
            /\ UNCHANGED <<modalFile, modalBank>>
  /\ UNCHANGED <<open, submitted, mounted, selectedBank, pageVars,
                 converterVars>>

\* The toggle buttons are rendered only while a file is selected.
ModalHandleBankSelection ==
  /\ mounted = "UploadModal" /\ open
  /\ modalFile # NoFile
  /\ \E newBank \in {"starling", "revolut", Null} :
       IF newBank # Null
       THEN modalBank' = newBank /\ modalError' = NoError
       ELSE UNCHANGED <<modalBank, modalError>>
  /\ UNCHANGED <<open, modalFile, submitted, mounted, selectedBank, pageVars,
                 converterVars>>

\* selectedFile && selectedBank
ModalCanSubmit(file, bank) == file # NoFile /\ bank # Null

\* The button Process File: onSubmit is called with the file and the bank.
handleInternalSubmit ==
  /\ mounted = "UploadModal" /\ open
  /\ IF ModalCanSubmit(modalFile, modalBank)
     THEN /\ modalError' = NoError
          /\ submitted' = [file |-> modalFile, bank |-> modalBank]
     ELSE /\ modalError' = ErrorText("Please select a file and a bank type.")
          /\ UNCHANGED submitted
  /\ UNCHANGED <<open, modalFile, modalBank, mounted, selectedBank, pageVars,
                 converterVars>>

\* Cancel, or onClose of the dialog: the state is reset and the parent,
\* told by onClose, hides the modal.
handleClose ==
  /\ mounted = "UploadModal" /\ open
  /\ modalFile' = NoFile
  /\ modalBank' = Null
  /\ modalError' = NoError
  /\ open' = FALSE
  /\ UNCHANGED <<submitted, mounted, selectedBank, pageVars, converterVars>>

\* A run renders the page of App or the UploadModal component.
InitUI ==
  /\ data = <<>>
  /\ selectedBank = Null
  /\ converted = None
  /\ renormalized = None
  /\ PageInitial
  /\ ModalInitial
  /\ mounted \in {"App", "UploadModal"}

NextUI ==
  \/ onDrop \/ handleOpenModal \/ handleCloseModal \/ handleBankSelection
  \/ handleProcessUpload \/ ParseComplete \/ ParseError \/ handleDownload
  \/ ModalOpen \/ ModalOnDrop \/ ModalHandleBankSelection
  \/ handleInternalSubmit \/ handleClose

SpecUI == InitUI /\ [][NextUI]_vars

-----------------------------------------------------------------------------
(* Vocabulary of the properties                                           *)

Done      == converted.type # "none"
Succeeded == converted.type = "array"
Failed    == converted.type = "string"

DateColumn(bank) == IF bank = "starling" THEN "Date" ELSE "Completed Date"

AmountColumn(bank) == IF bank = "starling" THEN "Amount (GBP)" ELSE "Amount"

RequiredColumns(bank) ==
  IF bank = "starling" THEN {"Date", "Amount (GBP)", "Counter Party"}
  ELSE {"Completed Date", "Amount", "Description"}

BankName(bank) == IF bank = "starling" THEN "Starling" ELSE "Revolut"

\* The header line of a non-empty input is the set of keys of its first
\* row; header validation passes when it has every required column.
HeaderComplete ==
  Len(data) > 0 /\ RequiredColumns(selectedBank) \subseteq DOMAIN data[1]

\* The characters of s in front of its first blank.
FirstToken(s) ==
  LET n == CHOOSE k \in 0..Len(s) :
             /\ \A i \in 1..k : s[i] # " "
             /\ (k = Len(s) \/ s[k + 1] = " ")
  IN  SubSeq(s, 1, n)

\* tok reads YYYY-MM-DD: three dash-separated segments of 4, 2 and 2
\* characters.
YMDShape(tok) ==
  /\ Len(tok) = 10
  /\ \A i \in 1..10 : (tok[i] = "-") <=> (i \in {5, 8})

\* ^-?\d+\.\d{2}$
AmountPattern(s) ==
  LET b == IF s # <<>> /\ s[1] = "-" THEN Tl(s, 1) ELSE s
  IN  /\ Len(b) >= 4
      /\ b[Len(b) - 2] = "."
      /\ \A i \in 1..Len(b) : i # Len(b) - 2 => b[i] \in Digits

\* The whole of s, surrounding white space apart, is a signed decimal
\* numeral or Infinity.
NumericString(s) ==
  LET t    == Trim(s)
      u    == IF t # <<>> /\ t[1] \in {"-", "+"} THEN Tl(t, 1) ELSE t
      int  == DigitPrefix(u)
      v    == Tl(u, Len(int))
      dot  == v # <<>> /\ v[1] = "."
      frac == IF dot THEN DigitPrefix(Tl(v, 1)) ELSE <<>>
  IN  \/ u = INFINITY
      \/ /\ int \o frac # <<>>
         /\ Len(u) = Len(int) + (IF dot THEN 1 + Len(frac) ELSE 0)

DateWellFormed(bank, s) ==
  IF bank = "starling" THEN datePattern(s) ELSE YMDShape(FirstToken(s))

\* A row passes row validation: it has a date and an amount, the date has
\* the form of the bank and a number can be read from the amount.
RowValid(bank, row) ==
  /\ ~Falsy(row, DateColumn(bank))
  /\ ~Undef(row, AmountColumn(bank))
  /\ DateWellFormed(bank, row[DateColumn(bank)])
  /\ ~isNaN(parseFloat(row[AmountColumn(bank)]))

InvalidRows == {i \in 1..Len(data) : ~RowValid(selectedBank, data[i])}

\* The 1-based position of the first row that fails row validation.
FirstInvalid == CHOOSE i \in InvalidRows : \A j \in InvalidRows : i <= j

RowLevel(e) == e.kind \in {"Missing", "InvalidDate", "InvalidAmount"}

\* The row-level error e says what is wrong with row.
Describes(e, bank, row) ==
  /\ e.kind = "Missing" =>
       /\ e.column \in {DateColumn(bank), AmountColumn(bank)}
       /\ Falsy(row, e.column)
  /\ e.kind = "InvalidDate" =>
       /\ ~Undef(row, DateColumn(bank))
       /\ e.raw = row[DateColumn(bank)]
       /\ ~DateWellFormed(bank, e.raw)
  /\ e.kind = "InvalidAmount" =>
       /\ e.column = AmountColumn(bank)
       /\ ~Undef(row, e.column)
       /\ e.raw = row[e.column]
       /\ isNaN(parseFloat(e.raw))

\* The line written for a record: date,amount,description without quotes.
Line(rec) == rec.Date \o <<",">> \o rec.Amount \o <<",">> \o rec.Description

Count(s, c) == Cardinality({i \in 1..Len(s) : s[i] = c})

-----------------------------------------------------------------------------
(* The properties                                                          *)

\* C1: for both banks, whenever the conversion succeeds the date of every
\* output record matches ^\d{2}/\d{2}/\d{4}$.
C1_EveryDateMatches ==
  Succeeded =>
    \A i \in 1..Len(converted.records) :
      datePattern(converted.records[i].Date)

\* C2: for both banks, whenever the conversion succeeds the amount of every
\* output record matches ^-?\d+\.\d{2}$, whatever amount string was read.
C2_EveryAmountMatches ==
  Succeeded =>
    \A i \in 1..Len(converted.records) :
      AmountPattern(converted.records[i].Amount)

\* C3: for both banks, whenever the conversion succeeds no description
\* holds a comma, a double quote, a carriage return or a line feed, and the
\* line date,amount,description written without quotes has exactly three
\* fields and no line break.
C3_ThreeFieldsOnOneLine ==
  Succeeded =>
    \A i \in 1..Len(converted.records) :
      LET rec == converted.records[i]
      IN  /\ \A j \in 1..Len(rec.Description) :
               rec.Description[j] \notin {",", "\"", "\r", "\n"}
          /\ Count(Line(rec), ",") = 2
          /\ Count(Line(rec), "\r") + Count(Line(rec), "\n") = 0

\* C4: normalization is all-or-nothing.  When some row fails row
\* validation the result is one error and no records at all, also when
\* valid rows come first; and once header validation has passed, which is
\* when the rows are validated, that error is the row-level error of the
\* first failing row: it carries that row's number and says what is wrong
\* with that row, whatever is wrong with the rows after it.
C4_AllOrNothing ==
  (Done /\ InvalidRows # {}) =>
    /\ Failed
    /\ HeaderComplete =>
         /\ RowLevel(converted.error)
         /\ converted.error.row = FirstInvalid + 1
         /\ Describes(converted.error, selectedBank, data[FirstInvalid])

\* A batch whose first row is valid and whose second row is not has been
\* converted.
C4_Witness ==
  /\ Failed /\ HeaderComplete
  /\ Len(data) >= 2
  /\ InvalidRows # {} /\ FirstInvalid = 2

\* C5: for a non-empty input whose header lacks a required column of the
\* selected bank, the result is a missing-column error that names a column
\* the header does lack and carries the whole set of headers found; when
\* the header has the three required columns the result is no
\* missing-column error.
C5_HeaderValidation ==
  (Done /\ Len(data) > 0) =>
    LET found   == DOMAIN data[1]
        lacking == RequiredColumns(selectedBank) \ found
    IN  /\ lacking # {} =>
             /\ Failed
             /\ converted.bank = BankName(selectedBank)
             /\ converted.error.kind = "MissingColumn"
             /\ converted.error.column \in lacking
             /\ converted.error.found = found
        /\ lacking = {} =>
             ~(Failed /\ converted.error.kind = "MissingColumn")

\* An input whose header lacks a required column has been converted.
C5_Witness ==
  /\ Failed
  /\ Len(data) > 0
  /\ selectedBank = "revolut"
  /\ RequiredColumns(selectedBank) \ DOMAIN data[1] = {"Description"}

\* C6: for both banks, no batch with a row whose amount string is not
\* numeric is converted into output records: the conversion fails.
C6_NonNumericAmountNeverConverted ==
  Done =>
    \A i \in 1..Len(data) :
      LET row == data[i]
          col == AmountColumn(selectedBank)
      IN  (~Undef(row, col) /\ ~NumericString(row[col])) => Failed

\* C7: a Revolut row with a Completed Date whose first space-delimited
\* token does not read YYYY-MM-DD makes normalization fail; when it is the
\* first failing row of a batch that passed header validation and it has
\* an amount, the error is the row-level date error with the row's number
\* and the raw Completed Date; and a date error is only ever raised for
\* such a row.
C7_RevolutDateError ==
  (Done /\ selectedBank = "revolut") =>
    LET col == "Completed Date"
        malformed ==
          {i \in 1..Len(data) :
             ~Falsy(data[i], col) /\ ~YMDShape(FirstToken(data[i][col]))}
    IN  /\ malformed # {} => Failed
        /\ ( /\ HeaderComplete
             /\ InvalidRows # {}
             /\ FirstInvalid \in malformed
             /\ ~Undef(data[FirstInvalid], "Amount") ) =>
             converted =
               Message("Revolut",
                       InvalidDate(FirstInvalid + 1,
                                   data[FirstInvalid][col]))
        /\ (Failed /\ converted.error.kind = "InvalidDate") =>
             /\ converted.error.row - 1 \in malformed
             /\ converted.error.raw = data[converted.error.row - 1][col]

\* The Revolut row dated 2024/02/01 has been rejected with the date error.
C7_Witness ==
  /\ selectedBank = "revolut"
  /\ data = <<RevolutCols(YMDSlash, <<"1", ".", "5">>, <<"a">>)>>
  /\ converted = Message("Revolut", InvalidDate(2, YMDSlash))

\* C8: for both banks, in a batch that passed header validation a row
\* whose date or amount is absent or empty makes normalization fail with a
\* row-level error; when that row is the first failing one and its date is
\* absent or empty the error reports the missing date, and when it has a
\* date but no amount, the missing amount; and the row number of every
\* row-level error is the 0-based position of the row it is about (the
\* first failing row) plus 2.
C8_MissingValueAndRowNumber ==
  Done =>
    LET dc == DateColumn(selectedBank)
        ac == AmountColumn(selectedBank)
        missing == {i \in 1..Len(data) :
                      Falsy(data[i], dc) \/ Falsy(data[i], ac)}
    IN  /\ (HeaderComplete /\ missing # {}) =>
             /\ Failed /\ RowLevel(converted.error)
             /\ (FirstInvalid \in missing /\ Falsy(data[FirstInvalid], dc))
                  => converted.error = MissingValue(dc, FirstInvalid + 1)
             /\ ( /\ FirstInvalid \in missing
                  /\ ~Falsy(data[FirstInvalid], dc)
                  /\ Undef(data[FirstInvalid], ac) )
                  => converted.error = MissingValue(ac, FirstInvalid + 1)
        /\ (Failed /\ RowLevel(converted.error)) =>
             /\ InvalidRows # {}
             /\ converted.error.row = (FirstInvalid - 1) + 2

\* A batch whose second row has a date and no amount has been rejected
\* with the error of row 3.
C8_Witness ==
  /\ Failed /\ HeaderComplete
  /\ Len(data) = 2
  /\ RowValid(selectedBank, data[1])
  /\ ~Falsy(data[2], DateColumn(selectedBank))
  /\ Undef(data[2], AmountColumn(selectedBank))
  /\ converted.error.row = 3

\* C9: for every row of a converted Starling batch the output date is the
\* input Date unchanged and the output description is the cleaned Counter
\* Party, followed by " - " and the Reference when the row has a non-empty
\* Reference; an empty or absent Counter Party is no error, it gives an
\* empty fragment; and the example row gives {01/02/2024, -12.50,
\* "Acme Ltd. - INV1"}.
C9_StarlingMapping ==
  (Done /\ selectedBank = "starling") =>
    /\ Succeeded =>
         /\ Len(converted.records) = Len(data)
         /\ \A i \in 1..Len(data) :
              LET row   == data[i]
                  rec   == converted.records[i]
                  party == IF Falsy(row, "Counter Party") THEN <<>>
                           ELSE row["Counter Party"]
              IN  /\ rec.Date = row["Date"]
                  /\ Falsy(row, "Reference") =>
                       rec.Description = CleanDescription(party)
                  /\ ~Falsy(row, "Reference") =>
                       rec.Description =
                         CleanDescription(party \o <<" ", "-", " ">>
                                                \o row["Reference"])
    /\ (HeaderComplete /\ InvalidRows = {}) => Succeeded
    /\ data = <<StarlingExample>> =>
         converted =
           Records(<<[Date |-> DMY,
                      Amount |-> <<"-", "1", "2", ".", "5", "0">>,
                      Description |->
                        <<"A", "c", "m", "e", " ", "L", "t", "d", ".",
                          " ", "-", " ", "I", "N", "V", "1">>]>>)

\* The example row has been converted.
C9_Witness ==
  /\ selectedBank = "starling"
  /\ data = <<StarlingExample>>
  /\ Succeeded

\* C10: for every row of a converted Revolut batch the Completed Date
\* starts with a token YYYY-MM-DD, the output date is DD/MM/YYYY made of
\* the characters of those three segments, what follows the first blank is
\* dropped, and the output description is the cleaned Description alone;
\* the example row gives {01/02/2024, 12.50, "Coffee Shop"}.
C10_RevolutMapping ==
  (Done /\ selectedBank = "revolut") =>
    /\ Succeeded =>
         /\ Len(converted.records) = Len(data)
         /\ \A i \in 1..Len(data) :
              LET row == data[i]
                  rec == converted.records[i]
                  tok == FirstToken(row["Completed Date"])
              IN  /\ YMDShape(tok)
                  /\ rec.Date = SubSeq(tok, 9, 10) \o <<"/">>
                                  \o SubSeq(tok, 6, 7) \o <<"/">>
                                  \o SubSeq(tok, 1, 4)
                  /\ rec.Description =
                       CleanDescription(IF Falsy(row, "Description")
                                        THEN <<>> ELSE row["Description"])
    /\ data = <<RevolutExample>> =>
         converted =
           Records(<<[Date |-> DMY,
                      Amount |-> <<"1", "2", ".", "5", "0">>,
                      Description |->
                        <<"C", "o", "f", "f", "e", "e", " ",
                          "S", "h", "o", "p">>]>>)

\* The example row, with its time of day, has been converted.
C10_Witness ==
  /\ selectedBank = "revolut"
  /\ data = <<RevolutExample>>
  /\ Succeeded

\* C11: every converter of the repository cleans the description in the
\* same way, the commas and double quotes removed, then each CRLF, LF or CR
\* replaced by one blank, then the white space at both ends trimmed, so
\* that no description starts or ends with white space.
C11_SameSanitization ==
  Succeeded =>
    \A i \in 1..Len(converted.records) :
      LET raw == IF selectedBank = "revolut"
                 THEN OrEmpty(data[i], "Description")
                 ELSE StarlingDescription(data[i])
          kept == SelectSeq(raw, LAMBDA c : c \notin {",", "\""})
          desc == converted.records[i].Description
      IN  /\ desc = Trim(ReplaceLineBreaks(kept))
          /\ desc # <<>> =>
               desc[1] \notin WhiteSpace /\ desc[Len(desc)] \notin WhiteSpace

\* C12: for the empty input both converters return the empty array, no
\* error.
C12_EmptyInput ==
  (Done /\ data = <<>>) => converted = Records(<<>>)

\* The empty input has been converted by the Revolut converter.
C12_Witness ==
  Done /\ data = <<>> /\ selectedBank = "revolut"

\* C13: converting the records of a successful conversion once more, each
\* handed back as a row (date, amount, description, no reference), succeeds
\* and returns the same records.
C13_RoundTrip ==
  renormalized.type # "none" => renormalized = Records(converted.records)

\* C14: for every input each of the two converters returns either an array
\* of records (date, amount, description) or one message string; no
\* exception leaves the converter, and the message names the bank and the
\* cause: the required column the header lacks, or what is wrong with a row
\* and the number of that row.
C14_ErrorsAreResults ==
  Done =>
    \/ /\ converted.type = "array"
       /\ \A i \in 1..Len(converted.records) :
            DOMAIN converted.records[i] = {"Date", "Amount", "Description"}
    \/ /\ converted.type = "string"
       /\ converted.bank = BankName(selectedBank)
       /\ Len(data) > 0
       /\ LET e == converted.error
          IN  IF HeaderComplete
              THEN /\ RowLevel(e)
                   /\ e.row - 1 \in InvalidRows
                   /\ Describes(e, selectedBank, data[e.row - 1])
              ELSE /\ e.kind = "MissingColumn"
                   /\ e.column \in
                        RequiredColumns(selectedBank) \ DOMAIN data[1]

\* The Error thrown for a row of a Starling input has come back as the
\* message of the converter.
C14_Witness ==
  /\ Failed /\ selectedBank = "starling"
  /\ RowLevel(converted.error)
  /\ converted.bank = "Starling"

\* C19: the header is validated before any row is looked at, so a batch
\* that lacks a required column is answered with the missing-column error
\* whatever its rows hold; of several missing columns the one named is the
\* first in the order Amount (GBP), Counter Party, Date for Starling and
\* Completed Date, Amount, Description for Revolut; and the first failing
\* row is checked in the order missing date, missing amount, date format,
\* numeric amount, the first check that fails giving the error.
C19_OrderOfChecks ==
  (Done /\ Len(data) > 0) =>
    LET order   == IF selectedBank = "starling"
                   THEN <<"Amount (GBP)", "Counter Party", "Date">>
                   ELSE <<"Completed Date", "Amount", "Description">>
        lacking == {h \in 1..3 : order[h] \notin DOMAIN data[1]}
        dc      == DateColumn(selectedBank)
        ac      == AmountColumn(selectedBank)
    IN  /\ lacking # {} =>
             /\ Failed
             /\ converted.error.kind = "MissingColumn"
             /\ \E h \in lacking :
                  /\ \A g \in lacking : h <= g
                  /\ converted.error.column = order[h]
        /\ (lacking = {} /\ InvalidRows # {}) =>
             LET row == data[FirstInvalid]
                 n   == FirstInvalid + 1
             IN  /\ Failed
                 /\ converted.error =
                      IF Falsy(row, dc) THEN MissingValue(dc, n)
                      ELSE IF Undef(row, ac) THEN MissingValue(ac, n)
                      ELSE IF ~DateWellFormed(selectedBank, row[dc])
                      THEN InvalidDate(n, row[dc])
                      ELSE InvalidAmount(ac, n, row[ac])

\* A Starling batch that lacks two required columns, Date one of them, and
\* has a row that fails row validation has been answered.
C19_Witness ==
  /\ Failed /\ selectedBank = "starling"
  /\ Len(data) > 0
  /\ "Date" \notin DOMAIN data[1]
  /\ Cardinality(RequiredColumns(selectedBank) \ DOMAIN data[1]) >= 2
  /\ InvalidRows # {}

\* C20: a successful conversion returns as many records as the input has
\* rows, in the order of the rows, record i being what the callback makes
\* of row i alone; and no step changes the input rows.
C20_OrderPreserved ==
  /\ [](Succeeded =>
          /\ Len(converted.records) = Len(data)
          /\ \A i \in 1..Len(data) : \E up \in BOOLEAN :
               LET r == IF selectedBank = "starling"
                        THEN StarlingRow(data[i], 0, up)
                        ELSE RevolutRow(data[i], 0, up)
               IN  ~r.threw /\ r.rec = converted.records[i])
  /\ [][data' = data]_vars

\* Two different rows of a Revolut input have become two different
\* records.
C20_Witness ==
  /\ Succeeded /\ selectedBank = "revolut"
  /\ Len(data) = 2
  /\ converted.records[1] # converted.records[2]

\* C15: a parse is started, and onSubmit of the upload modal called, only
\* with a file and a bank; processing requested with no file or no bank
\* sets the error message, starts no parse (so no conversion) and leaves
\* the original and the formatted transactions as they are, and the modal
\* then sets its own error and does not call onSubmit.
C15_Precondition ==
  /\ [](\A p \in parsing : p.file # NoFile /\ p.bank # Null)
  /\ [](submitted # NoCall =>
          submitted.file # NoFile /\ submitted.bank # Null)
  /\ [][(handleProcessUpload /\ (selectedFile = NoFile \/ selectedBank = Null))
          => /\ error' = ErrorText("Please select a file and a bank type.")
             /\ UNCHANGED <<parsing, originalTransactions,
                            formattedTransactions>>]_vars
  /\ [][(handleInternalSubmit /\ (modalFile = NoFile \/ modalBank = Null))
          => /\ modalError' =
                  ErrorText("Please select a file and a bank type.")
             /\ UNCHANGED submitted]_vars

\* Processing has been requested with a file and no bank.
C15_Witness ==
  /\ mounted = "App"
  /\ selectedFile # NoFile /\ selectedBank = Null
  /\ error = ErrorText("Please select a file and a bank type.")
  /\ parsing = {}

\* C16: whenever formattedTransactions is not empty, its records were
\* converted from the file whose name originalFileName holds, so that the
\* name of the download is the one of that file.
C16_FormattedFromNamedFile ==
  Len(formattedTransactions) > 0 =>
    /\ installedFrom = originalFileName
    /\ downloadName(originalFileName) = downloadName(installedFrom)

\* C17: a callback that ends a parse with a parse error, an empty data
\* set or a conversion error leaves formattedTransactions empty and error
\* set and does not close the dialog; records are installed only by a
\* callback whose conversion succeeded, which installs the converted
\* records, clears error and closes the dialog.
C17_OutcomeOfOneRun ==
  [][(parsing' # parsing /\ parsing' \subseteq parsing) =>
       LET p       == CHOOSE q \in parsing : q \notin parsing'
           results == Parsed(p.file)
           outcomes ==
             {IF p.bank = "starling"
              THEN convertStarlingToFreeAgent(results.data, ups)
              ELSE convertRevolutToFreeAgent(results.data, ups) :
                ups \in [1..Len(results.data) -> BOOLEAN]}
           failing == \/ results.errors
                      \/ Len(results.data) = 0
                      \/ \A c \in outcomes : c.type = "string"
           failed  == /\ formattedTransactions' = <<>>
                      /\ error' # NoError
                      /\ isModalOpen' = isModalOpen
           succeeded == /\ \E c \in outcomes :
                             /\ c.type = "array"
                             /\ formattedTransactions' = c.records
                        /\ error' = NoError
                        /\ isModalOpen' = FALSE
       IN  /\ failing => failed
           /\ failed \/ (succeeded /\ ~failing)]_vars

\* A parse has ended in a conversion error while the dialog was open.
C17_Witness ==
  /\ error.kind = "conversion"
  /\ isModalOpen
  /\ formattedTransactions = <<>>
  /\ parsing = {}

\* C18: in the dialog of App and in UploadModal a selected bank implies a
\* selected file; the opening of the dialog clears both, a step that
\* changes the selected file leaves no bank selected, a drop leaves none
\* either unless it hands over no file and changes no selection, a bank is
\* chosen only while a file is selected, and a selected bank is cleared by
\* nothing but a drop, the opening or the closing of the dialog.
C18_BankImpliesFile ==
  /\ []((selectedBank # Null => selectedFile # NoFile)
        /\ (modalBank # Null => modalFile # NoFile))
  /\ [][/\ selectedFile' # selectedFile => selectedBank' = Null
        /\ modalFile' # modalFile => modalBank' = Null
        /\ handleOpenModal => selectedFile' = NoFile /\ selectedBank' = Null
        /\ ModalOpen => modalFile' = NoFile /\ modalBank' = Null
        /\ onDrop => \/ selectedBank' = Null
                     \/ UNCHANGED <<selectedFile, selectedBank>>
        /\ ModalOnDrop => \/ modalBank' = Null
                          \/ UNCHANGED <<modalFile, modalBank>>
        /\ (selectedBank' # selectedBank /\ selectedBank' # Null)
             => selectedFile # NoFile /\ selectedFile' = selectedFile
        /\ (modalBank' # modalBank /\ modalBank' # Null)
             => modalFile # NoFile /\ modalFile' = modalFile
        /\ (selectedBank # Null /\ selectedBank' = Null)
             => onDrop \/ handleOpenModal
        /\ (modalBank # Null /\ modalBank' = Null)
             => ModalOnDrop \/ ModalOpen \/ handleClose]_vars

\* A bank has been chosen for a dropped file in the dialog of App.
C18_Witness ==
  /\ mounted = "App" /\ isModalOpen
  /\ selectedBank = "revolut"
  /\ selectedFile = RevolutFile

=============================================================================
